---- MODULE Spec2Model ----
(***************************************************************************)
(* Ditto: mirrors image messages of the source channels into one target    *)
(* channel (src/src/index.ts).  The three event handlers (messageCreate,   *)
(* messageUpdate, messageDelete) are asynchronous: every `await` is a      *)
(* suspension point, so each handler is modelled as a small process whose  *)
(* steps are the bus calls (and image downloads) it awaits and the         *)
(* synchronous continuations between them.                                 *)
(***************************************************************************)
EXTENDS Integers, Sequences, FiniteSets, TLC

(* ----------------------------------------------------------------------- *)
(* Bounds of the model and configuration of the program                    *)
(* ----------------------------------------------------------------------- *)

\* Number of events the gateway delivers in one run.
MaxEvents == 4

\* default of MAX_UPLOAD_BYTES: 8 * 1024 * 1024
MAX_UPLOAD_BYTES == 8388608

\* Map.get of a key that is not in the map (undefined): no mirror id.
Absent == 0

SOURCE_CHANNELS == {"S"}
TARGET_CHANNEL_ID == "T"

(* ----------------------------------------------------------------------- *)
(* The messages the gateway can report                                     *)
(* ----------------------------------------------------------------------- *)

\* A file name or URL: its stem and the extension after the last dot
\* ("" when it has none).  NoRef is a missing name / URL (null, undefined, "").
NoRef == [stem |-> "", ext |-> ""]
Ref(s, e) == [stem |-> s, ext |-> e]

NoAuthor == [present |-> FALSE, bot |-> FALSE, tag |-> "", username |-> ""]
Author(b, t, u) == [present |-> TRUE, bot |-> b, tag |-> t, username |-> u]

\* Origin messages: the id fixes the channel and the author for good.
OriginIds == 1 .. 4

ChannelOf(id) ==
  CASE id = 1 -> "S"
    [] id = 2 -> "X"
    [] id = 3 -> "S"
    [] OTHER  -> "X"

AuthorOf(id) ==
  CASE id = 1 -> Author(FALSE, "alice#0001", "alice")
    [] id = 2 -> NoAuthor
    [] id = 3 -> Author(TRUE, "", "hookbot")
    [] OTHER  -> Author(TRUE, "ditto#9999", "ditto")

Att(ct, name, url) == [contentType |-> ct, name |-> name, url |-> url]
Embed(image, thumbnail, url) == [image |-> image, thumbnail |-> thumbnail, url |-> url]

\* The attachments and embeds a message can carry at the time of an event.
Contents ==
  { [attachments |-> << >>, embeds |-> << >>],
    [attachments |-> << Att("text/plain", Ref("notes", "txt"), Ref("cdn/notes", "txt")) >>,
     embeds      |-> << Embed(NoRef, NoRef, NoRef) >>],
    [attachments |-> << Att("image/png", Ref("cat", ""), Ref("cdn/cat", "")) >>,
     embeds      |-> << >>],
    [attachments |-> << Att("", Ref("dog", "PNG"), Ref("cdn/dog", "PNG")),
                        Att("application/pdf", Ref("scan", "png"), Ref("cdn/scan", "png")) >>,
     embeds      |-> << Embed(NoRef, Ref("thumb/t1", "jpg"), Ref("page/p1", "")) >>],
    [attachments |-> << >>,
     embeds      |-> << Embed(Ref("img/i1", "webp"), Ref("thumb/t2", "jpg"), NoRef),
                        Embed(NoRef, NoRef, Ref("page/p2", "")) >>] }

\* A partial message carries no attachments and no embeds.
PartialContent == [attachments |-> << >>, embeds |-> << >>]

(* ----------------------------------------------------------------------- *)
(* Pure helpers                                                            *)
(* ----------------------------------------------------------------------- *)

\* Mutant: the membership test is lost, any channel id passes.
isSourceChannelAny(id) == id # ""

isSourceChannel(id) == id # "" /\ id \in SOURCE_CHANNELS

\* String.startsWith('image') on the declared content types of the model.
StartsWithImage(ct) == ct \in {"image/png", "image/jpeg", "image/gif", "image"}

\* Lower-casing of the extensions of the model (the regex has the i flag).
Lower(e) ==
  CASE e = "PNG" -> "png"
    [] e = "JPG" -> "jpg"
    [] OTHER     -> e

\* /\.(jpe?g|png|gif|webp|bmp|svg|avif)$/i
HasImageExt(r) ==
  Lower(r.ext) \in {"jpg", "jpeg", "png", "gif", "webp", "bmp", "svg", "avif"}

\* Mutant: any attachment that declares a content type counts as an image.
isImageAttachmentAnyType(att) ==
  IF att.contentType # ""
    THEN TRUE
    ELSE HasImageExt(att.name) \/ HasImageExt(att.url)

isImageAttachment(att) ==
  IF att.contentType # ""
    THEN StartsWithImage(att.contentType)
    ELSE HasImageExt(att.name) \/ HasImageExt(att.url)

\* message.attachments.filter(att => isImageAttachment(att))
imageAttachments(content) == SelectSeq(content.attachments, isImageAttachment)

\* The URL one embed contributes: image, else thumbnail, else its own url.
EmbedUrl(e) ==
  IF e.image # NoRef THEN e.image
  ELSE IF e.thumbnail # NoRef THEN e.thumbnail
  ELSE e.url

RECURSIVE embedImageUrls(_)
embedImageUrls(embeds) ==
  IF embeds = << >> THEN << >>
  ELSE LET u == EmbedUrl(Head(embeds))
       IN  (IF u # NoRef THEN << u >> ELSE << >>) \o embedImageUrls(Tail(embeds))

\* imageAttachments.size === 0 && embedImageUrls.length === 0
NoImages(content) ==
  Len(imageAttachments(content)) = 0 /\ Len(embedImageUrls(content.embeds)) = 0

\* urls: the image attachments' urls, then the embed urls.
CandidateUrls(content) ==
  [k \in 1 .. Len(imageAttachments(content)) |-> imageAttachments(content)[k].url]
    \o embedImageUrls(content.embeds)

safeAuthorTag(id) ==
  LET a == AuthorOf(id)
  IN  IF a.present /\ a.tag # "" THEN << a.tag >>
      ELSE IF a.present /\ a.username # "" THEN << a.username, "#0000" >>
      ELSE << "Unknown#0000" >>

safeChannelRef(id) == ChannelOf(id)

\* Mutant: the update path reuses the header of the create path.
HeaderPlain(id, edited) ==
  [author |-> safeAuthorTag(id), channel |-> safeChannelRef(id), edited |-> FALSE]

\* `**${safeAuthorTag(m)}** from <#${safeChannelRef(m)}>`, with " (edited)"
\* appended on the update path.
Header(id, edited) ==
  [author |-> safeAuthorTag(id), channel |-> safeChannelRef(id), edited |-> edited]

\* Mutant: the loop-prevention check is missing.
AuthorIsBotNever(id) == FALSE

\* message.author?.bot
AuthorIsBot(id) == AuthorOf(id).present /\ AuthorOf(id).bot

(* ----------------------------------------------------------------------- *)
(* Content Fetcher helpers                                                 *)
(* ----------------------------------------------------------------------- *)

\* What downloadToBuffer resolves to: null (status not ok, or an exception
\* caught inside it), or a buffer of some byte length.
Null == [ok |-> FALSE, bytes |-> 0]
Buffer(b) == [ok |-> TRUE, bytes |-> b]
PayloadSizes == {MAX_UPLOAD_BYTES, MAX_UPLOAD_BYTES + 1}
DownloadResults == {Null} \cup {Buffer(b) : b \in PayloadSizes}

\* Mutant: a payload of exactly the maximum size is rejected too.
OversizedAtLimit(d) == d.bytes >= MAX_UPLOAD_BYTES

\* d.buffer.byteLength > MAX_UPLOAD_BYTES
Oversized(d) == d.bytes > MAX_UPLOAD_BYTES

\* One pass of the loop body of makeFilesFromUrls on download result d:
\* a failed or oversized download leaves files as it is.
PushFile(files, url, d) ==
  IF ~d.ok THEN files
  ELSE IF Oversized(d) THEN files
  ELSE Append(files, [url |-> url, bytes |-> d.bytes])

\* The `continue` of a skipped candidate jumps over the trailing delay.
DelayAfter(d) == d.ok /\ ~Oversized(d)

\* Mutant: no text fallback, the header is sent with whatever files there are.
SendPayloadNoFallback(header, urls, files) == [lines |-> << header >>, files |-> files]

\* The options object handed to targetChannel.send: the content as lines
\* (header, then one candidate url per line in the text fallback), the files.
NoPayload == [lines |-> << >>, files |-> << >>]
SendPayload(header, urls, files) ==
  IF Len(files) = 0
    THEN [lines |-> << header >> \o urls, files |-> << >>]
    ELSE [lines |-> << header >>, files |-> files]

(* ----------------------------------------------------------------------- *)
(* State                                                                   *)
(* ----------------------------------------------------------------------- *)

Handlers == {1, 2}

VARIABLES
  forwardMap,   \* originalMsgId -> forwardedMsgId (Absent: no entry)
  target,       \* ids of the messages that exist in the target channel
  sentFor,      \* sentFor[k]: the origin id whose handler sent message k
  life,         \* per origin id: "none" (no event yet), "live", "deleted"
  events,       \* number of events delivered so far
  handler       \* per handler invocation: its position and its locals

vars == << forwardMap, target, sentFor, life, events, handler >>

\* The locals of a handler invocation entered for an event.  calls, sends
\* and deletes count its bus calls on the target channel, writes its
\* forwardMap.set / forwardMap.delete calls; startMap and startTarget are
\* the ledger and the target channel as they were when the event arrived.
\* delays counts the delays of its fetch pass, faults holds the calls that
\* failed on it, ev is the number of its event in arrival order, and raced
\* tells whether a handler for the same origin was in flight when it began.
Locals(kind, id, content, partial, again) ==
  [ pc          |-> "entry",
    kind        |-> kind,
    id          |-> id,
    content     |-> content,
    partial     |-> partial,
    again       |-> again,
    forwardedId |-> Absent,
    urls        |-> << >>,
    i           |-> 0,
    files       |-> << >>,
    results     |-> << >>,
    forwarded   |-> FALSE,
    sent        |-> Absent,
    payload     |-> NoPayload,
    calls       |-> 0,
    sends       |-> 0,
    deletes     |-> 0,
    writes      |-> 0,
    startMap    |-> forwardMap,
    startTarget |-> target,
    delays      |-> 0,
    faults      |-> {},
    ev          |-> events + 1,
    raced       |-> \E g \in Handlers :
                      handler[g].pc \notin {"idle", "done"} /\ handler[g].id = id ]

Free(h) == handler[h].pc \in {"idle", "done"}

Init ==
  /\ forwardMap = [o \in OriginIds |-> Absent]
  /\ target = {}
  /\ sentFor = << >>
  /\ life = [o \in OriginIds |-> "none"]
  /\ events = 0
  /\ handler = [h \in Handlers |->
                 [ pc |-> "idle", kind |-> "none", id |-> 0,
                   content |-> PartialContent, partial |-> FALSE, again |-> FALSE,
                   forwardedId |-> Absent, urls |-> << >>, i |-> 0, files |-> << >>,
                   results |-> << >>, forwarded |-> FALSE, sent |-> Absent,
                   payload |-> NoPayload, calls |-> 0, sends |-> 0, deletes |-> 0,
                   writes |-> 0, startMap |-> [o \in OriginIds |-> Absent],
                   startTarget |-> {}, delays |-> 0, faults |-> {}, ev |-> 0,
                   raced |-> FALSE ] ]

\* What the handler sees of the message: a partial one has no content yet.
View(l) == IF l.partial THEN PartialContent ELSE l.content

(* ----------------------------------------------------------------------- *)
(* messageCreate                                                           *)
(* ----------------------------------------------------------------------- *)

\* The handler up to its first await: where it goes from the event.
CreateEntry(l) ==
  IF AuthorIsBot(l.id) THEN [l EXCEPT !.pc = "done"]
  ELSE IF ~isSourceChannel(ChannelOf(l.id)) THEN [l EXCEPT !.pc = "done"]
  ELSE IF NoImages(l.content) THEN [l EXCEPT !.pc = "done"]
  ELSE [l EXCEPT !.pc = "chan"]

MessageCreate(h, id, content) ==
  /\ Free(h)
  /\ events < MaxEvents
  /\ life[id] = "none"
  /\ life' = [life EXCEPT ![id] = "live"]
  /\ events' = events + 1
  /\ handler' = [handler EXCEPT ![h] = CreateEntry(Locals("create", id, content, FALSE, FALSE))]
  /\ UNCHANGED << forwardMap, target, sentFor >>

(* ----------------------------------------------------------------------- *)
(* messageUpdate                                                           *)
(* ----------------------------------------------------------------------- *)

\* Mutant: an edit that drops every image leaves the mirror in place.
UpdateBodyKeepsMirror(l) ==
  IF ~isSourceChannel(ChannelOf(l.id)) THEN [l EXCEPT !.pc = "done"]
  ELSE LET m == [l EXCEPT !.forwardedId = forwardMap[l.id]]
       IN  IF NoImages(View(m))
             THEN [m EXCEPT !.pc = "done"]
             ELSE [m EXCEPT !.urls = CandidateUrls(View(m)), !.i = 1, !.pc = "download"]

\* Mutant: with a mirror on record the handler turns to the target channel
\* (and the removal of the old mirror) before it has fetched any image.
UpdateBodyDeleteFirst(l) ==
  IF ~isSourceChannel(ChannelOf(l.id)) THEN [l EXCEPT !.pc = "done"]
  ELSE LET m == [l EXCEPT !.forwardedId = forwardMap[l.id]]
       IN  IF NoImages(View(m))
             THEN IF m.forwardedId # Absent
                    THEN [m EXCEPT !.pc = "chan"]
                    ELSE [m EXCEPT !.pc = "done"]
             ELSE IF m.forwardedId # Absent
                    THEN [m EXCEPT !.urls = CandidateUrls(View(m)), !.i = 1, !.pc = "chan"]
                    ELSE [m EXCEPT !.urls = CandidateUrls(View(m)), !.i = 1, !.pc = "download"]

\* The handler from the resolved message up to its next await: the channel
\* check, the re-extraction, the ledger lookup and the choice of the branch.
UpdateBody(l) ==
  IF ~isSourceChannel(ChannelOf(l.id)) THEN [l EXCEPT !.pc = "done"]
  ELSE LET m == [l EXCEPT !.forwardedId = forwardMap[l.id]]
       IN  IF NoImages(View(m))
             THEN IF m.forwardedId # Absent
                    THEN [m EXCEPT !.pc = "chan"]
                    ELSE [m EXCEPT !.pc = "done"]
             ELSE [m EXCEPT !.urls = CandidateUrls(View(m)), !.i = 1, !.pc = "download"]

\* A partial message is fetched first (an await); a full one is handled at once.
UpdateEntry(l) ==
  IF l.partial THEN [l EXCEPT !.pc = "resolve"] ELSE UpdateBody(l)

MessageUpdate(h, id, content, partial) ==
  /\ Free(h)
  /\ events < MaxEvents
  /\ life[id] # "deleted"
  /\ life' = [life EXCEPT ![id] = "live"]
  /\ events' = events + 1
  /\ handler' = [handler EXCEPT ![h] = UpdateEntry(Locals("update", id, content, partial, FALSE))]
  /\ UNCHANGED << forwardMap, target, sentFor >>

\* newMessage.fetch() resolved: the message is full now.
Resolve(h) ==
  /\ handler[h].pc = "resolve"
  /\ handler' = [handler EXCEPT ![h] = UpdateBody([handler[h] EXCEPT !.partial = FALSE])]
  /\ UNCHANGED << forwardMap, target, sentFor, life, events >>

(* ----------------------------------------------------------------------- *)
(* messageDelete                                                           *)
(* ----------------------------------------------------------------------- *)

\* Mutant: the early return on a missing ledger entry is lost.
DeleteEntryUnchecked(l) ==
  [l EXCEPT !.forwardedId = forwardMap[l.id], !.pc = "chan"]

DeleteEntry(l) ==
  LET m == [l EXCEPT !.forwardedId = forwardMap[l.id]]
  IN  IF m.forwardedId = Absent
        THEN [m EXCEPT !.pc = "done"]
        ELSE [m EXCEPT !.pc = "chan"]

\* again: this delete event follows a completed delete of the same id.
MessageDelete(h, id) ==
  /\ Free(h)
  /\ events < MaxEvents
  /\ life' = [life EXCEPT ![id] = "deleted"]
  /\ events' = events + 1
  /\ LET again == /\ handler[h].pc = "done"
                  /\ handler[h].kind = "delete"
                  /\ handler[h].id = id
     IN  handler' = [handler EXCEPT ![h] =
                       DeleteEntry(Locals("delete", id, PartialContent, FALSE, again))]
  /\ UNCHANGED << forwardMap, target, sentFor >>

(* ----------------------------------------------------------------------- *)
(* The awaited steps                                                       *)
(* ----------------------------------------------------------------------- *)

\* Where a handler goes once client.channels.fetch(TARGET_CHANNEL_ID) resolved.
AfterChannel(l) ==
  IF l.kind = "create"
    THEN [l EXCEPT !.urls = CandidateUrls(l.content), !.i = 1, !.pc = "download"]
  ELSE IF l.kind = "update" /\ ~NoImages(View(l))
    THEN IF l.forwardedId # Absent
           THEN [l EXCEPT !.pc = "fetchmsg"]
           ELSE [l EXCEPT !.pc = "send"]
  ELSE [l EXCEPT !.pc = "fetchmsg"]

FetchChannel(h) ==
  /\ handler[h].pc = "chan"
  /\ handler' = [handler EXCEPT ![h] = AfterChannel([handler[h] EXCEPT !.calls = @ + 1])]
  /\ UNCHANGED << forwardMap, target, sentFor, life, events >>

\* Where a handler goes once makeFilesFromUrls returned.
AfterFiles(l) ==
  IF l.kind = "create" THEN [l EXCEPT !.pc = "send"] ELSE [l EXCEPT !.pc = "chan"]

\* i++ and the loop test of makeFilesFromUrls.
NextCandidate(l) ==
  IF l.i + 1 > Len(l.urls)
    THEN AfterFiles([l EXCEPT !.i = @ + 1])
    ELSE [l EXCEPT !.i = @ + 1, !.pc = "download"]

\* await downloadToBuffer(url) resolved to d, and the rest of the loop body
\* up to the delay.
Download(h, d) ==
  /\ handler[h].pc = "download"
  /\ LET l == handler[h]
         m == [l EXCEPT !.files = PushFile(l.files, l.urls[l.i], d),
                        !.results = Append(@, d)]
     IN  handler' = [handler EXCEPT ![h] =
                       IF DelayAfter(d) THEN [m EXCEPT !.pc = "delay"] ELSE NextCandidate(m)]
  /\ UNCHANGED << forwardMap, target, sentFor, life, events >>

\* await new Promise(r => setTimeout(r, UPLOAD_DELAY_MS)) elapsed.
Delay(h) ==
  /\ handler[h].pc = "delay"
  /\ handler' = [handler EXCEPT ![h] = NextCandidate([handler[h] EXCEPT !.delays = @ + 1])]
  /\ UNCHANGED << forwardMap, target, sentFor, life, events >>

\* Where a handler goes once the old mirror is out of the way.
AfterRemoval(l) ==
  IF l.kind = "update" /\ ~NoImages(View(l))
    THEN [l EXCEPT !.pc = "send"]
    ELSE [l EXCEPT !.pc = "unrecord"]

\* targetCh.messages.fetch(forwardedId).catch(() => null)
FetchMessage(h) ==
  /\ handler[h].pc = "fetchmsg"
  /\ LET l == handler[h]
         found == l.forwardedId \in target
         m == [l EXCEPT !.calls = @ + 1, !.forwarded = found]
     IN  handler' = [handler EXCEPT ![h] =
                       IF found THEN [m EXCEPT !.pc = "delmsg"] ELSE AfterRemoval(m)]
  /\ UNCHANGED << forwardMap, target, sentFor, life, events >>

\* forwarded.delete().catch(() => {})
DeleteMessage(h) ==
  /\ handler[h].pc = "delmsg"
  /\ target' = target \ {handler[h].forwardedId}
  /\ handler' = [handler EXCEPT ![h] =
                   AfterRemoval([handler[h] EXCEPT !.calls = @ + 1, !.deletes = @ + 1])]
  /\ UNCHANGED << forwardMap, sentFor, life, events >>

\* targetChannel.send(...): the new message exists in the target channel
\* from here on; its id reaches the handler with the continuation.
Send(h) ==
  /\ handler[h].pc = "send"
  /\ LET l == handler[h]
         k == Len(sentFor) + 1
     IN  /\ target' = target \cup {k}
         /\ sentFor' = Append(sentFor, l.id)
         /\ handler' = [handler EXCEPT ![h] =
              [l EXCEPT !.calls = @ + 1, !.sends = @ + 1, !.sent = k,
                        !.payload = SendPayload(Header(l.id, l.kind = "update"), l.urls, l.files),
                        !.pc = "record"]]
  /\ UNCHANGED << forwardMap, life, events >>

\* Mutant: an existing entry is never overwritten.
SetEntryIfNew(map, id, mirror) ==
  IF map[id] # Absent THEN map ELSE [map EXCEPT ![id] = mirror]

\* forwardMap.set(message.id, sent.id)
SetEntry(map, id, mirror) == [map EXCEPT ![id] = mirror]

Record(h) ==
  /\ handler[h].pc = "record"
  /\ forwardMap' = SetEntry(forwardMap, handler[h].id, handler[h].sent)
  /\ handler' = [handler EXCEPT ![h] = [handler[h] EXCEPT !.writes = @ + 1, !.pc = "done"]]
  /\ UNCHANGED << target, sentFor, life, events >>

\* Mutant: the entry is left in the map.
DeleteEntryOfNothing(map, id) == map

\* forwardMap.delete(message.id)
DeleteEntryOf(map, id) == [map EXCEPT ![id] = Absent]

Unrecord(h) ==
  /\ handler[h].pc = "unrecord"
  /\ forwardMap' = DeleteEntryOf(forwardMap, handler[h].id)
  /\ handler' = [handler EXCEPT ![h] = [handler[h] EXCEPT !.writes = @ + 1, !.pc = "done"]]
  /\ UNCHANGED << target, sentFor, life, events >>

(* ----------------------------------------------------------------------- *)
(* Specifications                                                          *)
(* ----------------------------------------------------------------------- *)

Step(h) ==
  \/ \E id \in OriginIds, c \in Contents : MessageCreate(h, id, c)
  \/ \E id \in OriginIds, c \in Contents, p \in BOOLEAN : MessageUpdate(h, id, c, p)
  \/ \E id \in OriginIds : MessageDelete(h, id)
  \/ Resolve(h)
  \/ FetchChannel(h)
  \/ \E d \in DownloadResults : Download(h, d)
  \/ Delay(h)
  \/ FetchMessage(h)
  \/ DeleteMessage(h)
  \/ Send(h)
  \/ Record(h)
  \/ Unrecord(h)

\* Events handled one at a time, every bus call succeeding: one handler
\* invocation runs to completion before the next event is delivered.
NextSeq == Step(1)

SpecSeq == Init /\ [][NextSeq]_vars

(* ----------------------------------------------------------------------- *)
(* Bus calls that fail                                                     *)
(* ----------------------------------------------------------------------- *)

\* Mutant: the failure is swallowed and the handler goes on as if the
\* channel had been resolved.
ChannelFailedGoesOn(l) ==
  AfterChannel([l EXCEPT !.calls = @ + 1, !.faults = @ \cup {"chan"}])

\* client.channels.fetch(TARGET_CHANNEL_ID) rejected (or, on the create path,
\* resolved to no text channel): the handler's catch logs it, or the handler
\* returns; the event is over.
ChannelFailed(l) ==
  [l EXCEPT !.calls = @ + 1, !.faults = @ \cup {"chan"}, !.pc = "done"]

FetchChannelFail(h) ==
  /\ handler[h].pc = "chan"
  /\ handler' = [handler EXCEPT ![h] = ChannelFailed(handler[h])]
  /\ UNCHANGED << forwardMap, target, sentFor, life, events >>

\* newMessage.fetch().catch(() => {}): the message stays partial.
ResolveFail(h) ==
  /\ handler[h].pc = "resolve"
  /\ handler' = [handler EXCEPT ![h] =
                   UpdateBody([handler[h] EXCEPT !.faults = @ \cup {"resolve"}])]
  /\ UNCHANGED << forwardMap, target, sentFor, life, events >>

\* Mutant: the rejection is not caught at the call and ends the handler.
MessageFetchFailedAborts(l) ==
  [l EXCEPT !.calls = @ + 1, !.forwarded = FALSE, !.faults = @ \cup {"fetch"},
            !.pc = "done"]

\* targetCh.messages.fetch(forwardedId) rejected: .catch(() => null).
MessageFetchFailed(l) ==
  AfterRemoval([l EXCEPT !.calls = @ + 1, !.forwarded = FALSE,
                         !.faults = @ \cup {"fetch"}])

FetchMessageFail(h) ==
  /\ handler[h].pc = "fetchmsg"
  /\ handler' = [handler EXCEPT ![h] = MessageFetchFailed(handler[h])]
  /\ UNCHANGED << forwardMap, target, sentFor, life, events >>

\* forwarded.delete() rejected: .catch(() => {}), the mirror stays.
DeleteFailed(l) ==
  AfterRemoval([l EXCEPT !.calls = @ + 1, !.deletes = @ + 1,
                         !.faults = @ \cup {"delete"}])

DeleteMessageFail(h) ==
  /\ handler[h].pc = "delmsg"
  /\ handler' = [handler EXCEPT ![h] = DeleteFailed(handler[h])]
  /\ UNCHANGED << forwardMap, target, sentFor, life, events >>

\* targetChannel.send rejected: the handler's catch logs it, nothing is
\* recorded.
SendFailed(l) ==
  [l EXCEPT !.calls = @ + 1, !.faults = @ \cup {"send"}, !.pc = "done"]

SendFail(h) ==
  /\ handler[h].pc = "send"
  /\ handler' = [handler EXCEPT ![h] = SendFailed(handler[h])]
  /\ UNCHANGED << forwardMap, target, sentFor, life, events >>

Failure(h) ==
  \/ FetchChannelFail(h)
  \/ ResolveFail(h)
  \/ FetchMessageFail(h)
  \/ DeleteMessageFail(h)
  \/ SendFail(h)

\* Events handled one at a time, any bus call free to fail.
NextFail == Step(1) \/ Failure(1)

SpecFail == Init /\ [][NextFail]_vars

(* ----------------------------------------------------------------------- *)
(* Handlers that overlap                                                   *)
(* ----------------------------------------------------------------------- *)

\* The events of the interleaved runs: all for one source-channel origin,
\* the message delivered in full, every download kept.
RaceIds == {1}
RaceResults == {Buffer(MAX_UPLOAD_BYTES)}

RaceStep(h) ==
  \/ \E id \in RaceIds, c \in Contents : MessageCreate(h, id, c)
  \/ \E id \in RaceIds, c \in Contents : MessageUpdate(h, id, c, FALSE)
  \/ \E id \in RaceIds : MessageDelete(h, id)
  \/ FetchChannel(h)
  \/ \E d \in RaceResults : Download(h, d)
  \/ Delay(h)
  \/ FetchMessage(h)
  \/ DeleteMessage(h)
  \/ Send(h)
  \/ Record(h)
  \/ Unrecord(h)

\* Every event gets its own handler invocation at once; the invocations
\* interleave at their awaits, the bus being reliable.
NextRace == \E h \in Handlers : RaceStep(h)

SpecRace == Init /\ [][NextRace]_vars

(* ----------------------------------------------------------------------- *)
(* Vocabulary of the properties                                            *)
(* ----------------------------------------------------------------------- *)

Entered(h) == handler[h].pc # "idle"
Done(h) == handler[h].pc = "done"

InSource(id) == ChannelOf(id) \in SOURCE_CHANNELS

\* Section 4.1 of the specification, stated on its own: an attachment is
\* image-like if its declared content type starts with "image", or, the
\* content type being absent, its file name or URL ends with an image
\* extension; an embed qualifies if it has an image, thumbnail or direct URL.
ImageLike(att) ==
  \/ att.contentType # "" /\ StartsWithImage(att.contentType)
  \/ att.contentType = "" /\ (HasImageExt(att.name) \/ HasImageExt(att.url))

Qualifies(e) == e.image # NoRef \/ e.thumbnail # NoRef \/ e.url # NoRef

HasImage(content) ==
  \/ \E k \in 1 .. Len(content.attachments) : ImageLike(content.attachments[k])
  \/ \E k \in 1 .. Len(content.embeds) : Qualifies(content.embeds[k])

\* The handler made no bus call on the target and changed nothing.
NoOp(l) ==
  /\ l.calls = 0 /\ l.sends = 0 /\ l.deletes = 0 /\ l.writes = 0
  /\ forwardMap = l.startMap
  /\ target = l.startTarget

\* The messages in the target channel that mirror origin o.
MirrorsOf(o) == {k \in target : sentFor[k] = o}

\* C1: an event for a message outside the source channels is a pure no-op:
\* at every point of its handler no bus call on the target has been made
\* (no send, no delete), the ledger and the target channel are as they were
\* when the event arrived, and the handler is over (or, for a partial
\* update, still resolving the message).
C1_OutsideSourceNoOp ==
  \A h \in Handlers :
    (Entered(h) /\ ~InSource(handler[h].id))
      => /\ handler[h].pc \in {"resolve", "done"}
         /\ NoOp(handler[h])

\* A delete event for a message outside the source channels, handled while
\* the ledger holds entries and the target holds mirrors.
C1_Witness ==
  \E h \in Handlers :
    /\ Done(h) /\ handler[h].kind = "delete" /\ ~InSource(handler[h].id)
    /\ target # {}
    /\ \E o \in OriginIds : forwardMap[o] # Absent

\* C2: with events handled one at a time and the bus reliable, whenever a
\* handler has completed the ledger has an entry for o iff exactly one
\* mirror of o exists in the target, the entry is that mirror's id, after a
\* create that sent it is the id just sent, and after a delete path the
\* entry is absent.
C2_LedgerConsistent ==
  \A h \in Handlers :
    Done(h) =>
      /\ \A o \in OriginIds :
           /\ (forwardMap[o] # Absent) <=> (Cardinality(MirrorsOf(o)) = 1)
           /\ (forwardMap[o] # Absent) => (MirrorsOf(o) = {forwardMap[o]})
      /\ (handler[h].kind = "create" /\ handler[h].sends = 1)
           => forwardMap[handler[h].id] = handler[h].sent
      /\ (handler[h].kind = "delete" \/ ~HasImage(handler[h].content))
           => forwardMap[handler[h].id] = Absent

\* A delete that removed a mirror, another origin still being mirrored.
C2_Witness ==
  \E h \in Handlers :
    /\ Done(h) /\ handler[h].kind = "delete" /\ handler[h].deletes = 1
    /\ \E o \in OriginIds : forwardMap[o] # Absent /\ forwardMap[o] \in target

\* C3: edit-to-replace.  An update event for a mirrored source-channel
\* origin whose content still has an image makes exactly one delete (of the
\* old mirror) and exactly one send, and leaves the ledger entry at the id
\* of the new mirror, which differs from the old one.
C3_EditToReplace ==
  \A h \in Handlers :
    LET l == handler[h]
        old == l.startMap[l.id]
    IN  ( /\ Done(h) /\ l.kind = "update" /\ InSource(l.id)
          /\ HasImage(l.content)
          /\ old # Absent /\ old \in l.startTarget )
          => /\ l.deletes = 1 /\ l.sends = 1
             /\ old \notin target
             /\ forwardMap[l.id] = l.sent
             /\ l.sent # old
             /\ l.sent \in target
             /\ target = (l.startTarget \ {old}) \cup {l.sent}

C3_Witness ==
  \E h \in Handlers :
    /\ Done(h) /\ handler[h].kind = "update" /\ InSource(handler[h].id)
    /\ HasImage(handler[h].content)
    /\ handler[h].startMap[handler[h].id] \in handler[h].startTarget
    /\ handler[h].sends = 1

\* C4: edit-to-removal.  An update event for a source-channel origin whose
\* content has no image: if the origin is mirrored, exactly one delete on
\* the target (the mirror is gone), the ledger entry removed, no send; if
\* it has no ledger entry, no bus call on the target and nothing changes.
C4_EditToRemoval ==
  \A h \in Handlers :
    LET l == handler[h]
        old == l.startMap[l.id]
    IN  (Done(h) /\ l.kind = "update" /\ InSource(l.id) /\ ~HasImage(l.content))
          => IF old # Absent
               THEN /\ l.deletes = 1 /\ l.sends = 0
                    /\ forwardMap = [l.startMap EXCEPT ![l.id] = Absent]
                    /\ target = l.startTarget \ {old}
               ELSE NoOp(l)

\* The mirror of an origin edited down to a text attachment is removed.
C4_Witness ==
  \E h \in Handlers :
    /\ Done(h) /\ handler[h].kind = "update" /\ InSource(handler[h].id)
    /\ ~HasImage(handler[h].content)
    /\ handler[h].startMap[handler[h].id] \in handler[h].startTarget
    /\ handler[h].startMap[handler[h].id] \notin target
    /\ handler[h].deletes = 1

\* C5: idempotence of delete.  A delete event for an origin without ledger
\* entry makes no bus call and changes nothing; so does a delete event that
\* follows a completed delete of the same origin.
C5_DeleteIdempotent ==
  \A h \in Handlers :
    LET l == handler[h]
    IN  (Entered(h) /\ l.kind = "delete" /\ (l.startMap[l.id] = Absent \/ l.again))
          => Done(h) /\ NoOp(l) /\ forwardMap[l.id] = Absent

\* The second of two delete events for an origin that had been mirrored.
C5_Witness ==
  \E h \in Handlers :
    /\ Done(h) /\ handler[h].kind = "delete" /\ handler[h].again
    /\ \E k \in 1 .. Len(sentFor) : sentFor[k] = handler[h].id

\* Download result d yields no asset: it failed, or its payload is larger
\* than the maximum byte size.
Unusable(d) == ~d.ok \/ d.bytes > MAX_UPLOAD_BYTES

\* C6: fallback-to-text.  A create or update event for a source-channel
\* message whose candidates were fetched and all failed or were oversized
\* still ends with exactly one send: the header followed by every candidate
\* URL as text, no files, and the id of that message in the ledger.
C6_FallbackToText ==
  \A h \in Handlers :
    LET l == handler[h]
    IN  ( /\ Done(h) /\ l.kind \in {"create", "update"} /\ InSource(l.id)
          /\ Len(l.results) >= 1
          /\ \A k \in 1 .. Len(l.results) : Unusable(l.results[k]) )
          => /\ l.sends = 1
             /\ Len(l.urls) >= 1
             /\ Len(l.results) = Len(l.urls)
             /\ Len(l.payload.lines) = 1 + Len(l.urls)
             /\ l.payload.lines[1].author = safeAuthorTag(l.id)
             /\ l.payload.lines[1].channel = ChannelOf(l.id)
             /\ \A k \in 1 .. Len(l.urls) : l.payload.lines[k + 1] = l.urls[k]
             /\ l.payload.files = << >>
             /\ forwardMap[l.id] = l.sent
             /\ l.sent \in target

\* Two candidates, one failed and one oversized, mirrored as text.
C6_Witness ==
  \E h \in Handlers :
    /\ Done(h) /\ handler[h].kind = "create"
    /\ Len(handler[h].results) = 2
    /\ handler[h].results[1] = Null
    /\ handler[h].results[2] = Buffer(MAX_UPLOAD_BYTES + 1)
    /\ Len(handler[h].payload.lines) = 3

\* The assets section 4.2 asks for: the candidates from position k on whose
\* download succeeded with at most the maximum byte size, in their order.
RECURSIVE Kept(_, _, _)
Kept(urls, results, k) ==
  IF k > Len(results) THEN << >>
  ELSE (IF results[k].ok /\ results[k].bytes <= MAX_UPLOAD_BYTES
          THEN << [url |-> urls[k], bytes |-> results[k].bytes] >>
          ELSE << >>) \o Kept(urls, results, k + 1)

\* C7: at every point of a Content Fetcher pass the fetched-asset list is
\* the order-preserving subsequence of the candidates downloaded so far
\* that succeeded within the maximum byte size, and once the pass is over
\* every candidate has been downloaded, whatever failed before it.
C7_FetchedAssets ==
  \A h \in Handlers :
    LET l == handler[h]
    IN  /\ Len(l.results) <= Len(l.urls)
        /\ l.files = Kept(l.urls, l.results, 1)
        /\ (l.pc \in {"send", "record", "done"} /\ l.i >= 1)
             => Len(l.results) = Len(l.urls)

\* A pass whose first candidate was skipped and whose second was kept.
C7_Witness ==
  \E h \in Handlers :
    LET l == handler[h]
    IN  /\ Done(h) /\ Len(l.urls) = 2 /\ Len(l.results) = 2
        /\ Unusable(l.results[1])
        /\ l.results[2] = Buffer(MAX_UPLOAD_BYTES)
        /\ l.files = << [url |-> l.urls[2], bytes |-> MAX_UPLOAD_BYTES] >>

\* C8: a create event for a message with no image attachment and no
\* qualifying embed URL makes no bus call on the target, sends nothing and
\* leaves the ledger as it was; the origin stays unmirrored.
C8_CreateWithoutImages ==
  \A h \in Handlers :
    LET l == handler[h]
    IN  (Entered(h) /\ l.kind = "create" /\ ~HasImage(l.content))
          => Done(h) /\ NoOp(l) /\ forwardMap[l.id] = Absent

\* A human's source-channel message with a text attachment and an empty embed.
C8_Witness ==
  \E h \in Handlers :
    /\ Done(h) /\ handler[h].kind = "create" /\ InSource(handler[h].id)
    /\ ~AuthorOf(handler[h].id).bot
    /\ Len(handler[h].content.attachments) = 1
    /\ ~HasImage(handler[h].content)

\* C9: deferred create.  An update event for a source-channel message that
\* has an image and no ledger entry makes no delete on the target, sends
\* exactly one message whose header carries the "(edited)" suffix and
\* records its id under the origin id.
C9_DeferredCreate ==
  \A h \in Handlers :
    LET l == handler[h]
    IN  ( /\ Done(h) /\ l.kind = "update" /\ InSource(l.id)
          /\ HasImage(l.content)
          /\ l.startMap[l.id] = Absent )
          => /\ l.deletes = 0 /\ l.sends = 1
             /\ l.payload.lines[1].edited
             /\ forwardMap[l.id] = l.sent
             /\ l.sent \in target /\ l.sent \notin l.startTarget
             /\ target = l.startTarget \cup {l.sent}

C9_Witness ==
  \E h \in Handlers :
    /\ Done(h) /\ handler[h].kind = "update" /\ InSource(handler[h].id)
    /\ HasImage(handler[h].content)
    /\ handler[h].startMap[handler[h].id] = Absent
    /\ forwardMap[handler[h].id] = handler[h].sent
    /\ handler[h].sent \in target

\* C10: a create event whose author is a bot is ignored, whatever its
\* channel and its images: no bus call, no send, the ledger unchanged.
C10_BotCreateIgnored ==
  \A h \in Handlers :
    LET l == handler[h]
    IN  (Entered(h) /\ l.kind = "create" /\ AuthorOf(l.id).bot)
          => Done(h) /\ NoOp(l)

\* A bot's message with images in a source channel.
C10_Witness ==
  \E h \in Handlers :
    /\ Done(h) /\ handler[h].kind = "create" /\ AuthorOf(handler[h].id).bot
    /\ InSource(handler[h].id) /\ HasImage(handler[h].content)

\* C13: within a fetch pass the delay elapses after every candidate fetch,
\* kept or skipped, before the next fetch starts: whenever a fetch is about
\* to start, as many delays have elapsed as fetches were made.
C13_DelayAfterEveryFetch ==
  \A h \in Handlers :
    handler[h].pc = "download" => handler[h].delays = Len(handler[h].results)

\* An update event that replaces an existing mirror: a source-channel
\* origin with an image whose ledger entry named a mirror in the target
\* when the event arrived.
Replacing(l) ==
  /\ l.pc # "idle" /\ l.kind = "update" /\ InSource(l.id)
  /\ ~l.partial /\ HasImage(l.content)
  /\ l.startMap[l.id] # Absent /\ l.startMap[l.id] \in l.startTarget

\* C14 as claimed: on an update that replaces a mirror the old mirror is
\* deleted before any image download of the event starts, so it is out of
\* the target whenever a download is due or has been made.
C14_DeleteBeforeDownloads ==
  \A h \in Handlers :
    LET l == handler[h]
    IN  (Replacing(l) /\ (l.pc \in {"download", "delay"} \/ Len(l.results) >= 1))
          => l.startMap[l.id] \notin target

\* C14 as amended: on an update that replaces a mirror the current images
\* are fetched first, then the old mirror is deleted, then the replacement
\* is sent, then the ledger entry is set to the new id; every download of
\* the event is over before the old mirror is deleted.
C14_ReplaceOrder ==
  \A h \in Handlers :
    LET l == handler[h]
        old == l.startMap[l.id]
    IN  Replacing(l) =>
          /\ (l.pc \in {"download", "delay"})
               => (old \in target /\ l.deletes = 0 /\ l.sends = 0)
          /\ (l.pc = "delmsg" \/ l.deletes >= 1)
               => (Len(l.urls) >= 1 /\ Len(l.results) = Len(l.urls))
          /\ (old \notin target) <=> (l.deletes = 1)
          /\ (l.sends >= 1) => (l.deletes = 1 /\ l.sends = 1 /\ l.sent \in target)
          /\ (forwardMap[l.id] # old) => (l.sends = 1 /\ forwardMap[l.id] = l.sent)
          /\ Done(h) => forwardMap[l.id] = l.sent

\* The old mirror has just been deleted, both downloads being over and the
\* replacement not sent yet.
C14_Witness ==
  \E h \in Handlers :
    /\ Replacing(handler[h]) /\ handler[h].pc = "send"
    /\ handler[h].deletes = 1 /\ handler[h].sends = 0
    /\ Len(handler[h].results) = 2
    /\ handler[h].startMap[handler[h].id] \notin target

\* C19: loop prevention for every event kind: no event for a message
\* written by a bot, create or update, causes a send to the target or a
\* ledger entry for that message.
C19_NoMirrorOfBotMessages ==
  \A h \in Handlers :
    LET l == handler[h]
    IN  (Entered(h) /\ AuthorOf(l.id).bot)
          => (l.sends = 0 /\ l.writes = 0 /\ forwardMap[l.id] = Absent)

\* C11: when resolving the target channel fails, only that event is
\* abandoned: its handler is over without a send or a delete on the target
\* and with the ledger as it was when the event arrived, and the handler
\* slot is free for the next event.
C11_ChannelFailureAbandonsEvent ==
  \A h \in Handlers :
    LET l == handler[h]
    IN  ("chan" \in l.faults)
          => /\ Done(h) /\ Free(h)
             /\ l.sends = 0 /\ l.deletes = 0 /\ l.writes = 0
             /\ forwardMap = l.startMap
             /\ target = l.startTarget

\* The channel could not be resolved for an update that was to replace a
\* mirror, after both images had been fetched.
C11_Witness ==
  \E h \in Handlers :
    /\ Done(h) /\ "chan" \in handler[h].faults
    /\ handler[h].kind = "update" /\ Len(handler[h].results) = 2
    /\ handler[h].startMap[handler[h].id] \in target

\* C12: best-effort mirror removal.  On a delete event, or an update event
\* that shows no image, for an origin with a ledger entry, the target
\* channel being resolved: if the mirror is gone from the target, or its
\* fetch or its deletion fails, the handler still completes and the ledger
\* has no entry for the origin.
C12_BestEffortRemoval ==
  \A h \in Handlers :
    LET l == handler[h]
    IN  ( /\ l.kind = "delete" \/ (l.kind = "update" /\ InSource(l.id) /\ ~HasImage(View(l)))
          /\ l.pc \notin {"idle", "resolve", "chan"}
          /\ l.startMap[l.id] # Absent
          /\ "chan" \notin l.faults )
          => /\ l.pc \in {"fetchmsg", "delmsg", "unrecord", "done"}
             /\ l.sends = 0
             /\ Done(h) => forwardMap[l.id] = Absent

\* A delete event whose mirror could not be deleted: the entry is removed,
\* the mirror is still in the target.
C12_Witness ==
  \E h \in Handlers :
    /\ Done(h) /\ handler[h].kind = "delete" /\ "delete" \in handler[h].faults
    /\ handler[h].startMap[handler[h].id] \in target
    /\ forwardMap[handler[h].id] = Absent

\* C20: with events handled one at a time and bus calls free to fail,
\* whenever a handler has completed every ledger entry names a message
\* that exists in the target channel.
C20_EntriesNameLiveMirrors ==
  \A h \in Handlers :
    Done(h) => \A o \in OriginIds : forwardMap[o] # Absent => forwardMap[o] \in target

\* No handler is in flight.
Quiescent == \A h \in Handlers : Free(h)

\* The ledger entry of o is the mirror sent for an event older than the
\* latest completed event for o: a mirror built from outdated content.
Stale(o) ==
  \E h, g \in Handlers :
    /\ Done(h) /\ Done(g)
    /\ handler[h].id = o /\ handler[g].id = o
    /\ handler[h].sent # Absent /\ forwardMap[o] = handler[h].sent
    /\ handler[g].ev > handler[h].ev

\* The ledger entry of o names a message that is not in the target.
Dangling(o) == forwardMap[o] # Absent /\ forwardMap[o] \notin target

\* C15: two handlers for the same origin can interleave so that, both
\* being over, the ledger entry is stale or names a deleted mirror (the
\* state of C15_Witness); and that is the only way: whenever no handler is
\* in flight and the entry of an origin is stale or dangling, a handler for
\* that origin began while another one for it was in flight.
C15_StaleOnlyByOverlap ==
  \A o \in OriginIds :
    (Quiescent /\ (Stale(o) \/ Dangling(o)))
      => \E h \in Handlers : handler[h].id = o /\ handler[h].raced

\* Two updates of one origin have both completed and the ledger names the
\* mirror of the older one, built from other content than the newer one's.
C15_Witness ==
  \E h, g \in Handlers :
    /\ Quiescent /\ Stale(handler[h].id)
    /\ handler[h].id = handler[g].id
    /\ handler[h].kind = "update" /\ handler[g].kind = "update"
    /\ handler[g].ev > handler[h].ev
    /\ forwardMap[handler[h].id] = handler[h].sent
    /\ handler[g].sends = 1
    /\ handler[g].content # handler[h].content

\* C16: under any interleaving of create and update handlers for an origin
\* (no delete event), once no handler is in flight at most one mirror of
\* the origin exists in the target, and it is the one the ledger names.
C16_AtMostOneMirror ==
  (Quiescent /\ \A o \in OriginIds : life[o] # "deleted")
    => \A o \in OriginIds :
         /\ Cardinality(MirrorsOf(o)) <= 1
         /\ MirrorsOf(o) \subseteq {forwardMap[o]}

\* C17: once a delete event for an origin has been delivered and no
\* handler is in flight, no mirror of the origin exists in the target and
\* the ledger has no entry for it.
C17_DeletedOriginHasNoMirror ==
  Quiescent
    => \A o \in OriginIds :
         life[o] = "deleted" => (MirrorsOf(o) = {} /\ forwardMap[o] = Absent)

\* C18: with a reliable bus and mirrors deleted by the handlers only, in
\* every state where no handler is in flight each ledger value names a
\* message that exists in the target channel.
C18_QuiescentEntriesLive ==
  Quiescent => \A o \in OriginIds : ~Dangling(o)

\* Two overlapping handlers read the same mirror id from the ledger, one
\* of them deleted that mirror, and the entry that is left names a message
\* of the target.
C18_Witness ==
  \E h, g \in Handlers :
    /\ Quiescent /\ h # g
    /\ handler[h].id = handler[g].id
    /\ handler[h].raced
    /\ handler[h].forwardedId # Absent
    /\ handler[h].forwardedId = handler[g].forwardedId
    /\ handler[g].deletes = 1 /\ ~handler[h].forwarded /\ handler[h].calls >= 2
    /\ forwardMap[handler[h].id] # Absent
    /\ forwardMap[handler[h].id] \in target

====
